---- MODULE Spec2Model ----
(***************************************************************************)
(* Model of the FBref player-URL pipeline:                                 *)
(*   - PlayerURLFinder.scrape_player_index, the checkpointed crawl of the  *)
(*     two-letter player index (get_player_urls_from_csv.py);              *)
(*   - scrape_multiple_players, the per-player scrape loop                 *)
(*     (scrape_multiple_players.py).                                       *)
(*   - the pure routines of the pipeline, each under a specification of    *)
(*     its own: the name normalizer, the shard selector, the matcher,      *)
(*     parse_transfer_season, get_player_stats, save_results,              *)
(*     merge_transfers_with_stats, create_batches, and the requests of a   *)
(*     run step by step.                                                   *)
(* A shard ("combo") is a pair of letters, each letter its position in     *)
(* string.ascii_lowercase, so <<1, 2>> is "ab".                            *)
(***************************************************************************)
EXTENDS Integers, Sequences, FiniteSets, TLC

VARIABLES
    file,              \* the checkpoint file on disk
    pc,                \* where scrape_player_index stands
    wr,                \* where _save_checkpoint stands inside its write
    resume,            \* argument resume of the running crawl
    combos,            \* the list `combos` of the running crawl
    loaded,            \* history: the checkpoint record the crawl loaded
    all_players,       \* local all_players
    processed_combos,  \* local processed_combos
    remaining_combos,  \* local remaining_combos
    idx,               \* loop index of the crawl (1-based, 0 before the loop)
    fetched,           \* history: shards handed to _scrape_page, in order
    last_outcome,      \* history: outcome of the latest _scrape_page call
    saved_idx,         \* history: idx at the latest completed _save_checkpoint
    runs,              \* number of program runs started so far
    p_pc,              \* where scrape_multiple_players stands
    players,           \* its local `players`, as a sequence of <<name, url>>
    p_idx,             \* its loop index
    attempted,         \* history: names handed to scrape_player_stats
    p_outcomes,        \* history: outcome per attempted player
    results_collection, \* its local results_collection
    nrm,               \* a call of the name normalizer: name, keys returned
    sel,               \* a call of _get_required_combos: names, result
    mat,               \* a call of the matcher: queries, index, result
    sea,               \* a call of parse_transfer_season: text, result
    lkp,               \* a call of get_player_stats: files, name, result
    sav,               \* save_results, then the lookup of what it saved
    mrg,               \* a run of merge_transfers_with_stats
    bat,               \* a run of create_batches
    req                \* the requests of a run, step by step

programVars ==
    <<file, pc, wr, resume, combos, loaded, all_players, processed_combos,
      remaining_combos, idx, fetched, last_outcome,
      saved_idx, runs, p_pc, players, p_idx, attempted, p_outcomes,
      results_collection>>

callVars == <<nrm, sel, mat, sea, lkp, sav, mrg, bat, req>>

vars == <<programVars, callVars>>

crawlVars == <<pc, wr, resume, combos, loaded, all_players, processed_combos,
               remaining_combos, idx, fetched, last_outcome,
               saved_idx>>

playerVars == <<p_pc, players, p_idx, attempted, p_outcomes,
                results_collection>>

----------------------------------------------------------------------------
\* Bounds of the model and constants of the program

\* longest short target list, and the number of distinct shards such a
\* list is drawn from
MaxLen == 2

\* length of the long target list: the first LongLen combos of the index,
\* long enough for a periodic checkpoint (the whole index, 676 combos, is
\* walked the same way and is not among the targets of the model)
LongLen == 51

\* most links on an index page
MaxLinks == 2

\* most program runs (crawls and player scrapes) in a behaviour
MaxRuns == 2

\* most players handed to scrape_multiple_players
MaxPlayers == 2

\* longest name of the exhaustive name inputs
MaxNameLen == 3

\* longest list of names given to the selector and the matcher, and the
\* largest index
MaxNames == 2

\* longest season text
MaxSeasonLen == 5

\* most rows of a statistics table
MaxRows == 3

\* most rows of the transfer list
MaxTransfers == 2

\* most players of the mapping that is cut into batches
MaxBatchPlayers == 5

\* most requests of a run
MaxRequests == 2

\* len(string.ascii_lowercase)
AlphabetSize == 26

\* "Save checkpoint every 50 pages"
CheckpointEvery == 50

\* href.count('/') >= 4
MinSlashes == 4

\* len(player_name) < 3 is skipped
MinNameLen == 3

----------------------------------------------------------------------------
\* Generic helpers

Range(s) == {s[i] : i \in 1..Len(s)}

SeqsUpTo(S, n) == UNION {[1..k -> S] : k \in 0..n}

\* a function as Python's dict: d.update(e)
DictUpdate(d, e) ==
    [k \in (DOMAIN d) \cup (DOMAIN e) |-> IF k \in DOMAIN e THEN e[k] ELSE d[k]]

EmptyDict == [k \in {} |-> ""]

\* lexicographic order of two-letter shards, as Python compares str
ShardLeq(s, t) == \/ s[1] < t[1]
                  \/ s[1] = t[1] /\ s[2] <= t[2]

IsAscending(q) == \A i \in 1..(Len(q) - 1) : ShardLeq(q[i], q[i + 1])

----------------------------------------------------------------------------
\* PlayerURLFinder

base_url == "https://fbref.com"

\* _generate_two_letter_combos: aa, ab, ..., zz
generate_two_letter_combos ==
    [i \in 1..(AlphabetSize * AlphabetSize) |->
        <<((i - 1) \div AlphabetSize) + 1, ((i - 1) % AlphabetSize) + 1>>]


\* The argument target_combos: a list, or None for "all 676 combinations"
None == [given |-> FALSE, list |-> <<>>]

Some(list) == [given |-> TRUE, list |-> list]

\* lines 256-262: the list to walk
CombosOf(target_combos) ==
    IF target_combos.given THEN target_combos.list
    ELSE generate_two_letter_combos

\* faulty variant of RemainingCombos: the processed shards are not filtered out
RemainingCombosUnfiltered(cs, processed) == cs

\* faulty variant of RemainingCombos: the remaining shards come out in
\* reverse order
RemainingCombosReversed(cs, processed) ==
    LET keep(c) == c \notin processed
        rest == SelectSeq(cs, keep)
    IN [i \in 1..Len(rest) |-> rest[Len(rest) + 1 - i]]

\* line 264: remaining_combos = [c for c in combos if c not in processed_combos]
RemainingCombos(cs, processed) ==
    LET keep(c) == c \notin processed IN SelectSeq(cs, keep)

\* An <a href> of an index page: href is (leading slash?, path segments,
\* suffix glued to the last segment); text is the link text after strip.
HrefText(h) ==
    LET RECURSIVE Join(_)
        Join(segs) == IF Len(segs) = 0 THEN ""
                      ELSE IF Len(segs) = 1 THEN segs[1]
                      ELSE segs[1] \o "/" \o Join(Tail(segs))
    IN (IF h.lead THEN "/" ELSE "") \o Join(h.segs) \o h.suffix

\* href.count('/')
CountSlashes(h) ==
    (IF h.lead THEN 1 ELSE 0) + (IF Len(h.segs) = 0 THEN 0 ELSE Len(h.segs) - 1)

\* '/players/' in href
ContainsPlayers(h) ==
    \E i \in 1..Len(h.segs) :
        /\ h.segs[i] = "players"
        /\ i > 1 \/ h.lead
        /\ i < Len(h.segs)

\* '-Stats' in href or 'matchlogs' in href
IsStatsOrMatchlog(h) == h.suffix = "-Stats" \/ "matchlogs" \in Range(h.segs)

\* lines 218-221
StatsUrl(h) ==
    IF h.lead THEN base_url \o HrefText(h) \o "-Stats"
    ELSE base_url \o "/" \o HrefText(h) \o "-Stats"

\* lines 199-225, one link of the loop: first occurrence of a name wins
ExtractLink(found, link) ==
    IF /\ ContainsPlayers(link.href)
       /\ CountSlashes(link.href) >= MinSlashes
       /\ ~IsStatsOrMatchlog(link.href)
       /\ Len(link.text) >= MinNameLen
       /\ link.text \notin DOMAIN found
    THEN DictUpdate(found, [k \in {link.text} |-> StatsUrl(link.href)])
    ELSE found

\* _extract_players_from_page: the links of the page in document order; an
\* exception raised after `stop` links ends the loop and returns what was
\* collected so far (stop = Len(links): no exception).
RECURSIVE ExtractFrom(_, _, _)
ExtractFrom(links, i, found) ==
    IF i > Len(links) THEN found
    ELSE ExtractFrom(links, i + 1, ExtractLink(found, links[i]))

extract_players_from_page(links, stop) ==
    ExtractFrom(SubSeq(links, 1, stop), 1, EmptyDict)

\* faulty variant of scrape_page: no except clause
scrape_page_uncaught(outcome) ==
    [soup |-> outcome = "document", raised |-> outcome = "error"]

\* _scrape_page: a soup for a 200 answer, None for a 404 and None for any
\* exception (network error, timeout, other HTTP error): the try/except
\* lets no exception out
scrape_page(outcome) == [soup |-> outcome = "document", raised |-> FALSE]

\* faulty variant of LoopBody: a shard is marked processed only when a page
\* came back
LoopBodyMarkOnSoup(all, processed, combo, soup, players_on_page) ==
    [ all_players |-> IF soup THEN DictUpdate(all, players_on_page) ELSE all,
      processed_combos |-> IF soup THEN processed \cup {combo} ELSE processed ]

\* faulty variant of LoopBody: the page's players replace the accumulated ones
LoopBodyReplace(all, processed, combo, soup, players_on_page) ==
    [ all_players |-> IF soup THEN players_on_page ELSE all,
      processed_combos |-> processed \cup {combo} ]

\* lines 279-284, the body of the crawl loop for one combo; players_on_page
\* is what _extract_players_from_page gives for the soup, when there is one
LoopBody(all, processed, combo, soup, players_on_page) ==
    [ all_players |-> IF soup THEN DictUpdate(all, players_on_page) ELSE all,
      processed_combos |-> processed \cup {combo} ]

\* faulty variant of ShouldCheckpoint: the periodic checkpoint is never due
ShouldCheckpointNever(i) == FALSE

\* line 287
ShouldCheckpoint(i) == i % CheckpointEvery = 0

\* list(S) of a set: some order of the set's elements
RECURSIVE SetToList(_)
SetToList(S) ==
    IF S = {} THEN <<>>
    ELSE LET x == CHOOSE y \in S : TRUE IN <<x>> \o SetToList(S \ {x})

\* list(processed_combos) for a set of shards of the index: its elements in
\* the order of the index, one of the orders list() can give
ProcessedList(S) == SelectSeq(generate_two_letter_combos, LAMBDA c : c \in S)

\* The checkpoint file. kind: "absent" (no file), "empty" (opened with 'w',
\* nothing flushed), "partial" (some of the JSON text flushed), "complete".
\* The timestamp field is written and never read; it is left out.
NoFile == [kind |-> "absent", players |-> EmptyDict, processed_combos |-> <<>>]

TornFile(kind) == [kind |-> kind, players |-> EmptyDict, processed_combos |-> <<>>]

\* lines 305-309
CheckpointData(pl, processed_list) ==
    [kind |-> "complete", players |-> pl, processed_combos |-> processed_list]


----------------------------------------------------------------------------
\* Inputs: what the index site can answer and what the caller can pass

Href(lead, segs, suffix) == [lead |-> lead, segs |-> segs, suffix |-> suffix]

Links ==
    { [href |-> Href(TRUE, <<"en", "players", "p1", "Ann-Lee">>, ""),
       text |-> "Ann Lee"],
      [href |-> Href(TRUE, <<"en", "players", "p2", "Ann-Lee">>, ""),
       text |-> "Ann Lee"],
      [href |-> Href(FALSE, <<"..", "en", "players", "p3", "Bo-Ito">>, ""),
       text |-> "Bo Ito"],
      [href |-> Href(TRUE, <<"en", "players">>, ""),
       text |-> "Players"],
      [href |-> Href(TRUE, <<"en", "players", "p1", "Ann-Lee">>, "-Stats"),
       text |-> "Ann Lee"],
      [href |-> Href(TRUE, <<"en", "players", "p4", "Xi">>, ""),
       text |-> "Xi"] }

Pages == SeqsUpTo(Links, MaxLinks)

\* every result _extract_players_from_page can give on a page of Pages
PageExtracts ==
    {extract_players_from_page(p, k) : <<p, k>> \in
        {<<q, j>> \in Pages \X (0..MaxLinks) : j <= Len(q)}}

ShortShards == {generate_two_letter_combos[i] : i \in 1..MaxLen}

LongCombos == SubSeq(generate_two_letter_combos, 1, LongLen)

Targets == {Some(l) : l \in SeqsUpTo(ShortShards, MaxLen) \cup {LongCombos}}

----------------------------------------------------------------------------
\* The crawl: PlayerURLFinder.scrape_player_index

Idle == {"idle", "done", "aborted"}

InCrawl == {"loop", "save", "final"}

\* faulty variant of AfterCombo: the loop ends one shard early
AfterComboSkipLast(i, n) == IF i >= n - 1 THEN "final" ELSE "loop"

\* where the loop stands once combo number i is handled and no periodic
\* checkpoint is due
AfterCombo(i, n) == IF i = n THEN "final" ELSE "loop"

\* no crawl process: the locals of scrape_player_index do not exist
CrawlAtRest ==
    /\ pc' = "idle"
    /\ wr' = "none"
    /\ resume' = FALSE
    /\ combos' = <<>>
    /\ loaded' = NoFile
    /\ all_players' = EmptyDict
    /\ processed_combos' = {}
    /\ remaining_combos' = <<>>
    /\ idx' = 0
    /\ fetched' = <<>>
    /\ last_outcome' = "none"
    /\ saved_idx' = 0

\* no scrape process: the locals of scrape_multiple_players do not exist
PlayersAtRest ==
    /\ p_pc' = "idle"
    /\ players' = <<>>
    /\ p_idx' = 0
    /\ attempted' = <<>>
    /\ p_outcomes' = <<>>
    /\ results_collection' = EmptyDict

\* faulty variant of ShouldLoad: an existing checkpoint is loaded even when
\* resume is off
ShouldLoadAlways(r, f) == f.kind # "absent"

\* line 248: if resume and os.path.exists(self.checkpoint_file)
ShouldLoad(r, f) == r /\ f.kind # "absent"

\* lines 244-270: set up, load the checkpoint when resuming, pick the work
Start(r, target) ==
    /\ pc = "idle"
    /\ p_pc = "idle"
    /\ runs < MaxRuns
    /\ runs' = runs + 1
    /\ resume' = r
    /\ combos' = CombosOf(target)
    /\ idx' = 0
    /\ fetched' = <<>>
    /\ last_outcome' = "none"
    /\ saved_idx' = 0
    /\ wr' = "none"
    /\ IF ShouldLoad(r, file)
       THEN IF file.kind = "complete"
            THEN /\ loaded' = file
                 /\ all_players' = file.players
                 /\ processed_combos' = Range(file.processed_combos)
                 /\ remaining_combos' =
                        RemainingCombos(combos', Range(file.processed_combos))
                 /\ pc' = AfterCombo(0, Len(remaining_combos'))
            ELSE \* json.load raises on an empty or torn file
                 /\ loaded' = NoFile
                 /\ all_players' = EmptyDict
                 /\ processed_combos' = {}
                 /\ remaining_combos' = <<>>
                 /\ pc' = "aborted"
       ELSE /\ loaded' = NoFile
            /\ all_players' = EmptyDict
            /\ processed_combos' = {}
            /\ remaining_combos' = RemainingCombos(combos', {})
            /\ pc' = AfterCombo(0, Len(remaining_combos'))
    /\ UNCHANGED <<file, playerVars, callVars>>

\* lines 272-287: one iteration of the loop, up to the checkpoint test
ScrapeCombo(outcome, players_on_page) ==
    /\ pc = "loop"
    /\ idx < Len(remaining_combos)
    /\ LET combo == remaining_combos[idx + 1]
           page == scrape_page(outcome)
           body == LoopBody(all_players, processed_combos, combo, page.soup,
                            players_on_page)
       IN /\ fetched' = Append(fetched, combo)
          /\ IF page.raised
             THEN \* an exception nothing catches ends scrape_player_index
                  /\ pc' = "aborted"
                  /\ UNCHANGED <<all_players, processed_combos, idx>>
             ELSE /\ all_players' = body.all_players
                  /\ processed_combos' = body.processed_combos
                  /\ idx' = idx + 1
                  /\ pc' = IF ShouldCheckpoint(idx') THEN "save"
                           ELSE AfterCombo(idx', Len(remaining_combos))
    /\ last_outcome' = outcome
    /\ UNCHANGED <<file, wr, resume, combos, loaded, remaining_combos,
                   saved_idx, runs, playerVars, callVars>>

\* line 311: open(checkpoint_file, 'w') truncates the file
SaveOpen ==
    /\ pc \in {"save", "final"}
    /\ wr = "none"
    /\ wr' = "open"
    /\ file' = TornFile("empty")
    /\ UNCHANGED <<pc, resume, combos, loaded, all_players, processed_combos,
                   remaining_combos, idx, fetched, last_outcome,
                   saved_idx, runs, playerVars, callVars>>

\* line 312: json.dump writes the text piece by piece; a full buffer is
\* flushed to disk before the rest is written
SaveFlush ==
    /\ pc \in {"save", "final"}
    /\ wr = "open"
    /\ wr' = "partial"
    /\ file' = TornFile("partial")
    /\ UNCHANGED <<pc, resume, combos, loaded, all_players, processed_combos,
                   remaining_combos, idx, fetched, last_outcome,
                   saved_idx, runs, playerVars, callVars>>

\* lines 312-314: the rest of the text is written and the file closed;
\* lines 288-292 / 295-301: back in the loop, or the crawl returns
SaveClose ==
    /\ pc \in {"save", "final"}
    /\ wr \in {"open", "partial"}
    /\ wr' = "none"
    /\ file' = CheckpointData(all_players, ProcessedList(processed_combos))
    /\ saved_idx' = idx
    /\ pc' = IF pc = "final" THEN "done"
             ELSE AfterCombo(idx, Len(remaining_combos))
    /\ UNCHANGED <<resume, combos, loaded, all_players, processed_combos,
                   remaining_combos, idx, fetched, last_outcome,
                   runs, playerVars, callVars>>

\* the process is killed while the crawl runs; its memory is gone
Kill ==
    /\ pc \in InCrawl
    /\ CrawlAtRest
    /\ UNCHANGED <<file, runs, playerVars, callVars>>

----------------------------------------------------------------------------
\* scrape_multiple_players (scrape_multiple_players.py)

\* the argument player_urls: a dict (its items in insertion order) or a list
AsDict(items) == [is_dict |-> TRUE, items |-> items, urls |-> <<>>]

AsList(urls) == [is_dict |-> FALSE, items |-> <<>>, urls |-> urls]

\* lines 19-22
PlayersOf(player_urls) ==
    IF player_urls.is_dict THEN player_urls.items
    ELSE [i \in 1..Len(player_urls.urls) |->
            <<"Player_" \o ToString(i - 1), player_urls.urls[i]>>]

\* lines 33-48, the try block for one player. outcome: "ok" (statistics
\* scraped and saved), "empty" (scrape_player_stats returned {}), "raised"
\* (scrape_player_stats or save_results raised). The except clause lets no
\* exception out.
TryPlayer(collection, name, url, outcome) ==
    [ results_collection |->
        IF outcome = "ok"
        THEN DictUpdate(collection, [k \in {name} |-> url])
        ELSE collection,
      raised |-> FALSE ]

PlayerName(i) == "P" \o ToString(i)

PlayerUrl(i) == base_url \o "/en/players/" \o ToString(i) \o "/P-Stats"

\* dicts of up to MaxPlayers players and lists of up to MaxPlayers URLs
PlayerInputs ==
    {AsDict([i \in 1..k |-> <<PlayerName(i), PlayerUrl(i)>>]) : k \in 0..MaxPlayers}
    \cup {AsList([i \in 1..k |-> PlayerUrl(i)]) : k \in 1..MaxPlayers}

\* lines 15-27
StartPlayers(player_urls) ==
    /\ pc = "idle"
    /\ p_pc = "idle"
    /\ runs < MaxRuns
    /\ runs' = runs + 1
    /\ players' = PlayersOf(player_urls)
    /\ p_idx' = 0
    /\ attempted' = <<>>
    /\ p_outcomes' = <<>>
    /\ results_collection' = EmptyDict
    /\ p_pc' = IF Len(players') = 0 THEN "done" ELSE "loop"
    /\ UNCHANGED <<file, crawlVars, callVars>>

\* lines 29-53: one iteration of the loop
ScrapePlayer(outcome) ==
    /\ p_pc = "loop"
    /\ p_idx < Len(players)
    /\ LET name == players[p_idx + 1][1]
           url == players[p_idx + 1][2]
           try == TryPlayer(results_collection, name, url, outcome)
       IN /\ attempted' = Append(attempted, name)
          /\ p_outcomes' = Append(p_outcomes, outcome)
          /\ IF try.raised
             THEN \* an exception nothing catches ends the function
                  /\ p_pc' = "aborted"
                  /\ UNCHANGED <<results_collection, p_idx>>
             ELSE /\ results_collection' = try.results_collection
                  /\ p_idx' = p_idx + 1
                  /\ p_pc' = IF p_idx' = Len(players) THEN "done" ELSE "loop"
    /\ UNCHANGED <<file, crawlVars, runs, players, callVars>>

\* the program ends, after its function returned or an exception nothing
\* catches came out of it; its memory is gone
Exit ==
    /\ \/ pc \in {"done", "aborted"}
       \/ p_pc \in {"done", "aborted"}
    /\ CrawlAtRest
    /\ PlayersAtRest
    /\ UNCHANGED <<file, runs, callVars>>

----------------------------------------------------------------------------
\* Names.  A name is a sequence of characters, a character a one-character
\* string (the combining accent is spelled by its code point).  The tables
\* give, for the characters of the model, what Python's str methods and
\* unicodedata (Unicode 14) give for them.

\* string.ascii_lowercase, which line 117 iterates, and its upper-case twin
ascii_lowercase ==
    << "a", "b", "c", "d", "e", "f", "g", "h", "i", "j", "k", "l", "m",
       "n", "o", "p", "q", "r", "s", "t", "u", "v", "w", "x", "y", "z" >>

ascii_uppercase ==
    << "A", "B", "C", "D", "E", "F", "G", "H", "I", "J", "K", "L", "M",
       "N", "O", "P", "Q", "R", "S", "T", "U", "V", "W", "X", "Y", "Z" >>

\* U+0301 COMBINING ACUTE ACCENT, general category Mn
acute == "U+0301"

IndexIn(q, c) == CHOOSE i \in 1..Len(q) : q[i] = c

\* the ASCII letters, and each one's other case
LowercaseLetters == Range(ascii_lowercase)

UppercaseLetters == Range(ascii_uppercase)

AsciiLower ==
    [c \in UppercaseLetters |-> ascii_lowercase[IndexIn(ascii_uppercase, c)]]

AsciiUpper ==
    [c \in LowercaseLetters |-> ascii_uppercase[IndexIn(ascii_lowercase, c)]]

\* str.lower() on one character: A-Z, and the two upper-case letters
\* outside ASCII that the model uses; every character of the model has a
\* one-character lower case
LowerChar(c) ==
    IF c \in UppercaseLetters THEN AsciiLower[c]
    ELSE CASE c = "É" -> "é"
           [] c = "Ø" -> "ø"
           [] OTHER -> c

\* str.upper() on one character; the upper case of "ß" is "SS"
UpperChar(c) ==
    IF c \in LowercaseLetters THEN << AsciiUpper[c] >>
    ELSE CASE c = "é" -> << "É" >>
           [] c = "ø" -> << "Ø" >>
           [] c = "ß" -> << "S", "S" >>
           [] OTHER -> << c >>

\* canonical decomposition of one character; "ø" and "ß" have none
Decompose(c) ==
    CASE c = "é" -> << "e", acute >>
      [] c = "É" -> << "E", acute >>
      [] OTHER -> << c >>

\* the characters c with unicodedata.category(c) == 'Mn'
Mn == {acute}

\* the characters str.split() splits on
Whitespace == {" ", "\t"}

\* str.isalpha() on one character
IsAlpha(c) ==
    c \in LowercaseLetters \cup UppercaseLetters
            \cup {"é", "É", "ø", "Ø", "ß"}

\* ord(c), the order Python compares strings by
Ord(c) ==
    IF c \in LowercaseLetters THEN 96 + IndexIn(ascii_lowercase, c)
    ELSE IF c \in UppercaseLetters THEN 64 + IndexIn(ascii_uppercase, c)
    ELSE CASE c = "\t" -> 9
           [] c = " " -> 32
           [] c = "-" -> 45
           [] c = "1" -> 49
           [] c = "É" -> 201
           [] c = "Ø" -> 216
           [] c = "ß" -> 223
           [] c = "é" -> 233
           [] c = "ø" -> 248
           [] c = acute -> 769

\* name.lower()
lower(s) == [i \in 1..Len(s) |-> LowerChar(s[i])]

\* name.upper()
RECURSIVE upper(_)
upper(s) == IF s = << >> THEN << >> ELSE UpperChar(Head(s)) \o upper(Tail(s))

\* unicodedata.normalize('NFD', name); the canonical reordering of marks
\* changes nothing here, the model has one combining mark
RECURSIVE NFD(_)
NFD(s) == IF s = << >> THEN << >> ELSE Decompose(Head(s)) \o NFD(Tail(s))

\* ''.join(c for c in ... if unicodedata.category(c) != 'Mn')
DropMarks(s) == SelectSeq(s, LAMBDA c : c \notin Mn)

\* name.split(): the maximal runs of characters that are not whitespace
RECURSIVE Words(_, _, _)
Words(s, word, words) ==
    LET closed == IF word = << >> THEN words ELSE Append(words, word)
    IN IF s = << >> THEN closed
       ELSE IF Head(s) \in Whitespace
            THEN Words(Tail(s), << >>, closed)
            ELSE Words(Tail(s), Append(word, Head(s)), words)

split(s) == Words(s, << >>, << >>)

\* ' '.join(words)
RECURSIVE join(_)
join(words) ==
    IF words = << >> THEN << >>
    ELSE IF Len(words) = 1 THEN words[1]
         ELSE words[1] \o << " " >> \o join(Tail(words))

\* faulty variant of PlayerURLFinder_normalize_name: whitespace is collapsed
\* before the combining marks are dropped
normalize_name_collapse_first(name) == DropMarks(NFD(join(split(lower(name)))))

\* get_player_urls_from_csv.py lines 85-107
PlayerURLFinder_normalize_name(name) == join(split(DropMarks(NFD(lower(name)))))

\* filter_player_urls.py lines 11-33, the same three steps
normalize_name(name) == join(split(DropMarks(NFD(lower(name)))))

\* the two copies of the routine
Copies == {"PlayerURLFinder", "filter_player_urls"}

NormalizeBy(copy, name) ==
    IF copy = "PlayerURLFinder" THEN PlayerURLFinder_normalize_name(name)
    ELSE normalize_name(name)

\* characters the names of the normalizer's inputs are made of
NameChars == {"o", "S", "é", "ß", acute, " "}

\* "José Mourinho"
JoseMourinho ==
    << "J", "o", "s", "é", " ", "M", "o", "u", "r", "i", "n", "h", "o" >>

NameInputs == SeqsUpTo(NameChars, MaxNameLen) \cup {JoseMourinho}

\* no call of the normalizer stands
NoNormalize ==
    [pc |-> "idle", copy |-> "none", name |-> << >>, variant |-> << >>,
     key |-> << >>, vkey |-> << >>, key2 |-> << >>]

\* a name arrives, and with it a second spelling, at first the same
NormalizeInput(name) == [NoNormalize EXCEPT !.pc = "input", !.name = name,
                                            !.variant = name]

\* the second spelling is put in upper case
Recase ==
    /\ nrm.pc = "input"
    /\ nrm' = [nrm EXCEPT !.variant = upper(@)]
    /\ UNCHANGED <<programVars, sel, mat, sea, lkp, sav, mrg, bat, req>>

\* the second spelling loses its accents
Unmark ==
    /\ nrm.pc = "input"
    /\ nrm' = [nrm EXCEPT !.variant = DropMarks(NFD(@))]
    /\ UNCHANGED <<programVars, sel, mat, sea, lkp, sav, mrg, bat, req>>

\* the second spelling gets one more whitespace character at an end or
\* next to whitespace
Respace(i, w) ==
    /\ nrm.pc = "input"
    /\ Len(nrm.variant) <= MaxNameLen
    /\ i \in 0..Len(nrm.variant)
    /\ \/ i = 0
       \/ i = Len(nrm.variant)
       \/ i >= 1 /\ nrm.variant[i] \in Whitespace
       \/ i < Len(nrm.variant) /\ nrm.variant[i + 1] \in Whitespace
    /\ nrm' = [nrm EXCEPT !.variant = SubSeq(@, 1, i) \o << w >>
                                          \o SubSeq(@, i + 1, Len(@))]
    /\ UNCHANGED <<programVars, sel, mat, sea, lkp, sav, mrg, bat, req>>

\* one copy of the routine is applied to the name and to its second spelling
Normalize(copy) ==
    /\ nrm.pc = "input"
    /\ nrm' = [nrm EXCEPT !.pc = "keyed", !.copy = copy,
                          !.key = NormalizeBy(copy, nrm.name),
                          !.vkey = NormalizeBy(copy, nrm.variant)]
    /\ UNCHANGED <<programVars, sel, mat, sea, lkp, sav, mrg, bat, req>>

\* the same copy is applied to the key it returned
Renormalize ==
    /\ nrm.pc = "keyed"
    /\ nrm' = [nrm EXCEPT !.pc = "rekeyed",
                          !.key2 = NormalizeBy(nrm.copy, nrm.key)]
    /\ UNCHANGED <<programVars, sel, mat, sea, lkp, sav, mrg, bat, req>>

----------------------------------------------------------------------------
\* _get_required_combos.  Here a shard is the two characters themselves.

\* the text of a shard of the index: f"{first}{second}", line 119
ComboText(shard) == << ascii_lowercase[shard[1]], ascii_lowercase[shard[2]] >>

\* s < t for two Python strings: code point by code point, a proper prefix
\* first
StrLess(s, t) ==
    \E i \in 1..Len(t) :
        /\ \A j \in 1..(i - 1) : j <= Len(s) /\ s[j] = t[j]
        /\ \/ i = Len(s) + 1
           \/ i <= Len(s) /\ Ord(s[i]) < Ord(t[i])

\* sorted(list(required_combos)), line 151
sorted(S) == SortSeq(SetToList(S), StrLess)

\* faulty variant of Cleaned: the non-alphabetic characters stay
CleanedUnfiltered(normalized) == normalized

\* line 140: ''.join(c for c in normalized if c.isalpha())
Cleaned(normalized) == SelectSeq(normalized, IsAlpha)

\* lines 135-149: the body of the loop for one name; a name with one letter
\* is logged as a warning, a name with none takes neither branch
SelectName(acc, name) ==
    LET normalized == PlayerURLFinder_normalize_name(name)
        cleaned == Cleaned(normalized)
    IN IF Len(cleaned) >= 2
       THEN [acc EXCEPT !.required_combos = @ \cup {SubSeq(cleaned, 1, 2)}]
       ELSE IF Len(cleaned) = 1
            THEN [acc EXCEPT !.warnings = Append(@, name)]
            ELSE acc

RECURSIVE SelectLoop(_, _)
SelectLoop(player_names, acc) ==
    IF player_names = << >> THEN acc
    ELSE SelectLoop(Tail(player_names), SelectName(acc, Head(player_names)))

\* lines 122-155; `warnings` is what logger.warning was called with
get_required_combos(player_names) ==
    LET acc == SelectLoop(player_names,
                          [required_combos |-> {}, warnings |-> << >>])
    IN [combos |-> sorted(acc.required_combos), warnings |-> acc.warnings]

\* characters the single target names are made of
TargetChars == {"k", "Y", "é", "ø", "1", " "}

\* target names that come in lists
TargetNames ==
    { << "k", "y" >>, << "K", "1", "y", "l" >>, << "Y", "é" >>,
      << "Ø", "d", "e" >>, << "é" >>, << "1", "1" >> }

TargetLists ==
    {<< n >> : n \in SeqsUpTo(TargetChars, MaxNameLen)}
        \cup SeqsUpTo(TargetNames, MaxNames)

\* no call of _get_required_combos stands
NoSelect ==
    [pc |-> "idle", player_names |-> << >>, combos |-> << >>,
     warnings |-> << >>]

SelectInput(player_names) ==
    [NoSelect EXCEPT !.pc = "input", !.player_names = player_names]

\* run, line 428: required_combos = self._get_required_combos(csv_players)
GetRequiredCombos ==
    /\ sel.pc = "input"
    /\ LET r == get_required_combos(sel.player_names)
       IN sel' = [sel EXCEPT !.pc = "returned", !.combos = r.combos,
                             !.warnings = r.warnings]
    /\ UNCHANGED <<programVars, nrm, mat, sea, lkp, sav, mrg, bat, req>>

----------------------------------------------------------------------------
\* match_players and match_and_filter.  The index is a dict, here the
\* sequence of its items <<name, url>> in iteration order, names distinct.

\* faulty variant of NormalizedIndex: the first name of a key stays
NormalizedIndexFirstWins(copy, items) ==
    [k \in {NormalizeBy(copy, items[i][1]) : i \in 1..Len(items)} |->
        items[CHOOSE i \in 1..Len(items) :
                /\ NormalizeBy(copy, items[i][1]) = k
                /\ \A j \in 1..(i - 1) : NormalizeBy(copy, items[j][1]) # k]]

RECURSIVE NormalizedIndexFrom(_, _, _)
NormalizedIndexFrom(copy, items, d) ==
    IF items = << >> THEN d
    ELSE NormalizedIndexFrom(copy, Tail(items),
            DictUpdate(d, NormalizeBy(copy, Head(items)[1]) :> Head(items)))

\* lines 330-333 (filter_player_urls.py 91-94): the dict comprehension
\* {normalize(name): (name, url) for name, url in index.items()}
NormalizedIndex(copy, items) == NormalizedIndexFrom(copy, items, EmptyDict)

\* faulty variant of MatchStep: a name that is not found is not recorded
MatchStepDropMiss(copy, acc, csv_name, normalized_index) ==
    LET normalized_csv == NormalizeBy(copy, csv_name)
    IN IF normalized_csv \in DOMAIN normalized_index
       THEN [acc EXCEPT !.matched =
                DictUpdate(@, csv_name :> normalized_index[normalized_csv][2])]
       ELSE acc

\* faulty variant of MatchStep: a name that is not found is put in front
MatchStepPrepend(copy, acc, csv_name, normalized_index) ==
    LET normalized_csv == NormalizeBy(copy, csv_name)
    IN IF normalized_csv \in DOMAIN normalized_index
       THEN [acc EXCEPT !.matched =
                DictUpdate(@, csv_name :> normalized_index[normalized_csv][2])]
       ELSE [acc EXCEPT !.unmatched = << csv_name >> \o @]

\* lines 338-348 (filter_player_urls.py 99-106): the body of the loop
MatchStep(copy, acc, csv_name, normalized_index) ==
    LET normalized_csv == NormalizeBy(copy, csv_name)
    IN IF normalized_csv \in DOMAIN normalized_index
       THEN [acc EXCEPT !.matched =
                DictUpdate(@, csv_name :> normalized_index[normalized_csv][2])]
       ELSE [acc EXCEPT !.unmatched = Append(@, csv_name)]

RECURSIVE MatchLoop(_, _, _, _)
MatchLoop(copy, csv_players, normalized_index, acc) ==
    IF csv_players = << >> THEN acc
    ELSE MatchLoop(copy, Tail(csv_players), normalized_index,
                   MatchStep(copy, acc, Head(csv_players), normalized_index))

\* get_player_urls_from_csv.py lines 316-351
match_players(csv_players, index_players) ==
    LET acc == MatchLoop("PlayerURLFinder", csv_players,
                         NormalizedIndex("PlayerURLFinder", index_players),
                         [matched |-> EmptyDict, unmatched |-> << >>])
    IN [raised |-> FALSE, matched |-> acc.matched,
        unmatched |-> acc.unmatched]

\* filter_player_urls.py lines 77-112; lines 109-110 divide by
\* len(csv_players) and raise ZeroDivisionError for an empty list
match_and_filter(csv_players, all_urls) ==
    LET acc == MatchLoop("filter_player_urls", csv_players,
                         NormalizedIndex("filter_player_urls", all_urls),
                         [matched |-> EmptyDict, unmatched |-> << >>])
    IN IF Len(csv_players) = 0
       THEN [raised |-> TRUE, matched |-> EmptyDict, unmatched |-> << >>]
       ELSE [raised |-> FALSE, matched |-> acc.matched,
             unmatched |-> acc.unmatched]

\* "Kylian Mbappé"
KylianMbappeAccent ==
    << "K", "y", "l", "i", "a", "n", " ", "M", "b", "a", "p", "p", "é" >>

\* "Kylian Mbappe"
KylianMbappe ==
    << "K", "y", "l", "i", "a", "n", " ", "M", "b", "a", "p", "p", "e" >>

\* "KYLIAN  MBAPPE"
KylianMbappeUpper ==
    << "K", "Y", "L", "I", "A", "N", " ", " ", "M", "B", "A", "P", "P", "E" >>

\* "Erling Haaland"
ErlingHaaland ==
    << "E", "r", "l", "i", "n", "g", " ", "H", "a", "a", "l", "a", "n", "d" >>

\* "Bo Ito"
BoIto == << "B", "o", " ", "I", "t", "o" >>

\* names the index has
IndexNames == {KylianMbappe, KylianMbappeUpper, ErlingHaaland}

\* names that are asked for
MatchNames == IndexNames \cup {KylianMbappeAccent, BoIto}

Urls == {"url1", "url2"}

QueryLists == SeqsUpTo(MatchNames, MaxNames)

IndexDicts ==
    {ix \in SeqsUpTo(IndexNames \X Urls, MaxNames) :
        \A i, j \in 1..Len(ix) : i # j => ix[i][1] # ix[j][1]}

\* no call of the matcher stands
NoMatch ==
    [pc |-> "idle", copy |-> "none", csv_players |-> << >>,
     index_players |-> << >>, matched |-> EmptyDict, unmatched |-> << >>]

MatchInput(csv_players, index_players) ==
    [NoMatch EXCEPT !.pc = "input", !.csv_players = csv_players,
                    !.index_players = index_players]

\* what a call of the matcher leaves behind
Matched(copy, r) ==
    [mat EXCEPT !.pc = IF r.raised THEN "raised" ELSE "returned",
                !.copy = copy, !.matched = r.matched,
                !.unmatched = r.unmatched]

\* run, line 443: self.match_players(csv_players, index_players)
MatchPlayers ==
    /\ mat.pc = "input"
    /\ mat' = Matched("PlayerURLFinder",
                      match_players(mat.csv_players, mat.index_players))
    /\ UNCHANGED <<programVars, nrm, sel, sea, lkp, sav, mrg, bat, req>>

\* filter_player_urls.main, line 170: match_and_filter(csv_players, all_urls)
MatchAndFilter ==
    /\ mat.pc = "input"
    /\ mat' = Matched("filter_player_urls",
                      match_and_filter(mat.csv_players, mat.index_players))
    /\ UNCHANGED <<programVars, nrm, sel, sea, lkp, sav, mrg, bat, req>>

----------------------------------------------------------------------------
\* parse_transfer_season (merge_transfer_stats.py)

Digits == << "0", "1", "2", "3", "4", "5", "6", "7", "8", "9" >>

\* a text int() reads as a decimal number; the model has no sign, blank or
\* underscore
IsDigits(s) == s # << >> /\ \A i \in 1..Len(s) : s[i] \in Range(Digits)

\* int(s) for such a text
RECURSIVE IntOf(_)
IntOf(s) ==
    IF s = << >> THEN 0
    ELSE 10 * IntOf(SubSeq(s, 1, Len(s) - 1)) + (IndexIn(Digits, s[Len(s)]) - 1)

\* season_str.split('/')[0]: the text before the first '/', all of it when
\* there is none
RECURSIVE FirstPart(_)
FirstPart(s) ==
    IF s = << >> \/ Head(s) = "/" THEN << >>
    ELSE << Head(s) >> \o FirstPart(Tail(s))

\* line 23: '20' + parts[0]
StartYearText(token) == << "2", "0" >> \o token

\* lines 10-29; int() raises ValueError for a text that is no number
parse_transfer_season(season_str) ==
    LET text == StartYearText(FirstPart(season_str))
        start_year == IntOf(text)
        prev_start == start_year - 1
        prev_end == start_year
    IN IF IsDigits(text)
       THEN [raised |-> FALSE,
             season |-> ToString(prev_start) \o "-" \o ToString(prev_end)]
       ELSE [raised |-> TRUE, season |-> ""]

\* characters the season strings are made of
SeasonChars == {"0", "1", "9", "/", "x"}

SeasonInputs == SeqsUpTo(SeasonChars, MaxSeasonLen)

\* no call of parse_transfer_season stands
NoSeason == [pc |-> "idle", season_str |-> << >>, season |-> ""]

SeasonInput(season_str) ==
    [NoSeason EXCEPT !.pc = "input", !.season_str = season_str]

\* merge_transfer_stats.py line 118, the call for one transfer row
ParseTransferSeason ==
    /\ sea.pc = "input"
    /\ LET r == parse_transfer_season(sea.season_str)
       IN sea' = [sea EXCEPT !.pc = IF r.raised THEN "raised" ELSE "returned",
                             !.season = r.season]
    /\ UNCHANGED <<programVars, nrm, sel, mat, lkp, sav, mrg, bat, req>>

----------------------------------------------------------------------------
\* get_player_stats (merge_transfer_stats.py) and the files it reads.
\* A table is a sequence of rows, a row a function from column names to
\* cells.  The directory outputs/ is a function from file names to files.

\* the columns of the model that hold a number in every row, so that pandas
\* gives them a numeric dtype; every other column holds text
NumberColumns == {"Gls", "Tkl"}

\* season_stats.select_dtypes(include='number').columns, line 67
NumericColumns(rows) == DOMAIN rows[1] \cap NumberColumns

\* season_stats.select_dtypes(exclude='number').columns, line 70
TextColumns(rows) == DOMAIN rows[1] \ NumberColumns

\* fbref_scraper.py line 184 and merge_transfer_stats.py line 45:
\* name.replace(' ', '_').replace("'", "")
CleanName(name) ==
    SelectSeq([i \in 1..Len(name) |-> IF name[i] = " " THEN "_" ELSE name[i]],
              LAMBDA c : c # "'")

\* f"{clean_name}_{stats_type}.csv", the table name one piece of the text
FileName(clean_name, stats_type) == clean_name \o << "_", stats_type, ".csv" >>

\* a file of outputs/: a table pandas can read, or something it cannot
TableFile(rows) == [readable |-> TRUE, rows |-> rows]

Unreadable == [readable |-> FALSE, rows |-> << >>]

\* an empty directory
NoFiles == [f \in {} |-> Unreadable]

\* the value None, and a row returned
Absent == [found |-> FALSE, row |-> [c \in {} |-> ""]]

Found(row) == [found |-> TRUE, row |-> row]

\* faulty variant of SumColumn: the first value instead of the sum
SumColumnFirst(rows, col) == rows[1][col]

\* line 67: the sum of one numeric column over the rows
RECURSIVE SumColumn(_, _)
SumColumn(rows, col) ==
    IF rows = << >> THEN 0 ELSE Head(rows)[col] + SumColumn(Tail(rows), col)

\* faulty variant of ShouldCombine: a single row is combined too
ShouldCombineAlways(n) == n >= 1

\* line 65: if len(season_stats) > 1
ShouldCombine(n) == n > 1

\* lines 67-75: the sums, then the first value of every text column other
\* than Squad and Comp, then Squad and Season; nothing sets Comp
Combine(season_stats, target_season) ==
    LET sums == [c \in NumericColumns(season_stats) |->
                    SumColumn(season_stats, c)]
        kept == [c \in TextColumns(season_stats) \ {"Squad", "Comp"} |->
                    season_stats[1][c]]
    IN DictUpdate(DictUpdate(DictUpdate(sums, kept),
                             "Squad" :> "Combined"),
                  "Season" :> target_season)

\* lines 32-83
get_player_stats(outputs, player_name, target_season, stats_type) ==
    LET clean_name == CleanName(player_name)
        pattern == FileName(clean_name, stats_type)
        files == {f \in DOMAIN outputs : f = pattern}
    IN IF files = {} THEN Absent
       ELSE LET file0 == outputs[CHOOSE f \in files : TRUE]
                season_stats ==
                    SelectSeq(file0.rows, LAMBDA r : r["Season"] = target_season)
            IN IF ~file0.readable THEN Absent
               ELSE IF season_stats = << >> THEN Absent
               ELSE IF ShouldCombine(Len(season_stats))
                    THEN Found(Combine(season_stats, target_season))
                    ELSE Found(season_stats[1])

\* the rows of the tables of the model: two seasons, two clubs with the
\* position played there, two goal counts
StatRow(season, squad, gls) ==
    [Season |-> season, Squad |-> squad, Comp |-> "Ligue 1",
     Pos |-> IF squad = "Monaco" THEN "FW" ELSE "MF", Gls |-> gls]

StatRows ==
    {StatRow(s, q, g) : s \in {"2009-2010", "2010-2011"},
                        q \in {"Monaco", "Paris"}, g \in {5, 7}}

Tables == SeqsUpTo(StatRows, MaxRows)

\* "Bo Ito", the player of the lookups
LookupName == BoIto

\* outputs/ with the player's standard_stats file, or without
Directories ==
    {NoFiles}
        \cup {FileName(CleanName(LookupName), "standard_stats") :> f :
                 f \in {TableFile(t) : t \in Tables} \cup {Unreadable}}

\* no call of get_player_stats stands
NoLookup ==
    [pc |-> "idle", outputs |-> NoFiles, player_name |-> << >>,
     target_season |-> "", stats_type |-> "", result |-> Absent]

LookupInput(outputs, season) ==
    [NoLookup EXCEPT !.pc = "input", !.outputs = outputs,
                     !.player_name = LookupName, !.target_season = season,
                     !.stats_type = "standard_stats"]

\* line 121: get_player_stats(player_name, prev_season, 'standard_stats')
GetPlayerStats ==
    /\ lkp.pc = "input"
    /\ lkp' = [lkp EXCEPT !.pc = "returned",
                          !.result = get_player_stats(lkp.outputs,
                              lkp.player_name, lkp.target_season,
                              lkp.stats_type)]
    /\ UNCHANGED <<programVars, nrm, sel, mat, sea, sav, mrg, bat, req>>

----------------------------------------------------------------------------
\* FBrefScraper.save_results (fbref_scraper.py) followed by get_player_stats:
\* the file is named after the name on the player's page, and looked for
\* under the name in the transfer list

\* what scrape_player_stats returns: the text of the page's h1, when it has
\* one, and the tables found
NoName == [given |-> FALSE, text |-> << >>]

PageName(text) == [given |-> TRUE, text |-> text]

\* line 183: results.get('player_info', {}).get('player_name', 'player')
PlayerNameOf(results) ==
    IF results.player_name.given THEN results.player_name.text
    ELSE << "p", "l", "a", "y", "e", "r" >>

\* lines 183-192: one file per table, named after the cleaned name
save_results(outputs, results) ==
    LET player_name_clean == CleanName(PlayerNameOf(results))
    IN DictUpdate(outputs,
           [f \in {FileName(player_name_clean, key) :
                      key \in DOMAIN results.tables} |->
               TableFile(results.tables[
                   CHOOSE key \in DOMAIN results.tables :
                       FileName(player_name_clean, key) = f])])

\* "O'Dea"
ODea == << "O", "'", "D", "e", "a" >>

\* names on pages and in the transfer list
SavedNames == {KylianMbappeAccent, KylianMbappe, ErlingHaaland, BoIto, ODea}

\* the season looked up, and a table with one row of it
SavedSeason == "2009-2010"

SavedTable == << StatRow(SavedSeason, "Monaco", 5) >>

\* what a page can give: a name or none, the standard table or none
ScrapeResults ==
    {[player_name |-> n, tables |-> t] :
        n \in {NoName} \cup {PageName(x) : x \in SavedNames},
        t \in {[k \in {} |-> << >>], "standard_stats" :> SavedTable}}

\* nothing scraped, nothing looked up
NoSave ==
    [pc |-> "idle", results |-> [player_name |-> NoName,
                                 tables |-> [k \in {} |-> << >>]],
     query_name |-> << >>, outputs |-> NoFiles, result |-> Absent]

SaveInput(results, query_name) ==
    [NoSave EXCEPT !.pc = "scraped", !.results = results,
                   !.query_name = query_name]

\* scrape_multiple_players.py line 38: scraper.save_results(results)
SaveResults ==
    /\ sav.pc = "scraped"
    /\ sav' = [sav EXCEPT !.pc = "saved",
                          !.outputs = save_results(sav.outputs, sav.results)]
    /\ UNCHANGED <<programVars, nrm, sel, mat, sea, lkp, mrg, bat, req>>

\* merge_transfer_stats.py line 121, for the name in the transfer list
LookupSaved ==
    /\ sav.pc = "saved"
    /\ sav' = [sav EXCEPT !.pc = "looked",
                          !.result = get_player_stats(sav.outputs,
                              sav.query_name, SavedSeason, "standard_stats")]
    /\ UNCHANGED <<programVars, nrm, sel, mat, sea, lkp, mrg, bat, req>>

----------------------------------------------------------------------------
\* merge_transfers_with_stats (merge_transfer_stats.py)

\* a cell of the Season column of transfers.csv: a text, or NaN when the
\* cell is empty
SeasonCell(text) == [missing |-> FALSE, text |-> text]

MissingSeason == [missing |-> TRUE, text |-> << >>]

\* the players of the transfer list
AlOz == << "A", "l", " ", "O", "z" >>

CyEk == << "C", "y", " ", "E", "k" >>

DiEto == << "D", "i", " ", "E", "t", "o" >>

\* a row of a defensive_actions table
DefRow(season, squad, tkl) ==
    [Season |-> season, Squad |-> squad, Comp |-> "Ligue 1", Tkl |-> tkl]

\* outputs/ of the merge runs: Bo Ito played 2009-2010 at two clubs and has
\* both tables, Al Oz has the standard table only, Di Eto the defensive
\* table only, Cy Ek has no file
MergeOutputs ==
    (FileName(CleanName(BoIto), "standard_stats") :>
        TableFile(<< StatRow("2009-2010", "Monaco", 5),
                     StatRow("2009-2010", "Paris", 7) >>))
    @@ (FileName(CleanName(BoIto), "defensive_actions") :>
        TableFile(<< DefRow("2009-2010", "Monaco", 3) >>))
    @@ (FileName(CleanName(AlOz), "standard_stats") :>
        TableFile(<< StatRow("2009-2010", "Paris", 5) >>))
    @@ (FileName(CleanName(DiEto), "defensive_actions") :>
        TableFile(<< DefRow("2009-2010", "Paris", 3) >>))

\* "10/11", "11/12", "x/11" and an empty cell
TransferSeasons ==
    {SeasonCell(<< "1", "0", "/", "1", "1" >>),
     SeasonCell(<< "1", "1", "/", "1", "2" >>),
     SeasonCell(<< "x", "/", "1", "1" >>),
     MissingSeason}

TransferRows ==
    {[Player |-> p, Season |-> s] :
        p \in {BoIto, AlOz, CyEk, DiEto}, s \in TransferSeasons}

TransferLists == SeqsUpTo(TransferRows, MaxTransfers)

\* line 118, with what Python does to NaN: a float has no split
ParseCell(cell) ==
    IF cell.missing THEN [raised |-> TRUE, error |-> "AttributeError", season |-> ""]
    ELSE LET parsed == parse_transfer_season(cell.text)
         IN [raised |-> parsed.raised, error |-> "ValueError",
             season |-> parsed.season]

\* faulty variant of ShouldMerge: the defensive table is asked for too
ShouldMergeBoth(standard_stats, defensive_stats) ==
    standard_stats.found /\ defensive_stats.found

\* line 124: if standard_stats is not None
ShouldMerge(standard_stats, defensive_stats) == standard_stats.found

\* a row under a prefix, without the columns left out
Prefixed(prefix, row, left_out) ==
    [c \in {prefix \o col : col \in DOMAIN row \ left_out} |->
        row[CHOOSE col \in DOMAIN row \ left_out : prefix \o col = c]]

\* lines 126-139
MergedRow(transfer, standard_stats, defensive_stats, prev_season) ==
    LET with_stats ==
            DictUpdate(transfer, Prefixed("Stats_", standard_stats.row, {"Season"}))
        with_def ==
            IF defensive_stats.found
            THEN DictUpdate(with_stats,
                     Prefixed("Def_", defensive_stats.row,
                              {"Season", "Squad", "Comp"}))
            ELSE with_stats
    IN DictUpdate(with_def, "Stats_Season" :> prev_season)

\* lines 145-149
NotFoundRow(transfer, prev_season) ==
    [Player |-> transfer.Player, Transfer_Season |-> transfer.Season,
     Looking_For |-> prev_season]

\* no run of merge_transfers_with_stats stands
NoMerge ==
    [pc |-> "idle", transfers |-> << >>, idx |-> 0, results |-> << >>,
     not_found |-> << >>, merged_df |-> FALSE, files |-> {},
     printed |-> << >>, error |-> ""]

\* lines 102-108
MergeInput(transfers) == [NoMerge EXCEPT !.pc = "loop", !.transfers = transfers]

\* lines 113-149, one row; an exception of line 118 leaves the function
MergeRow ==
    /\ mrg.pc = "loop"
    /\ mrg.idx < Len(mrg.transfers)
    /\ LET transfer == mrg.transfers[mrg.idx + 1]
           parsed == ParseCell(transfer.Season)
           prev_season == parsed.season
           standard_stats == get_player_stats(MergeOutputs, transfer.Player,
                                 prev_season, "standard_stats")
           defensive_stats == get_player_stats(MergeOutputs, transfer.Player,
                                  prev_season, "defensive_actions")
       IN IF parsed.raised
          THEN mrg' = [mrg EXCEPT !.pc = "raised", !.error = parsed.error]
          ELSE IF ShouldMerge(standard_stats, defensive_stats)
          THEN mrg' = [mrg EXCEPT !.idx = @ + 1,
                           !.results = Append(@, MergedRow(transfer,
                               standard_stats, defensive_stats, prev_season))]
          ELSE mrg' = [mrg EXCEPT !.idx = @ + 1,
                           !.not_found = Append(@, NotFoundRow(transfer,
                               prev_season))]
    /\ UNCHANGED <<programVars, nrm, sel, mat, sea, lkp, sav, bat, req>>

\* lines 151-176: merged_df exists only when there are results; each file
\* is written only for a list that is not empty
SaveMerged ==
    /\ mrg.pc = "loop"
    /\ mrg.idx = Len(mrg.transfers)
    /\ mrg' = [mrg EXCEPT
                  !.pc = "summary",
                  !.merged_df = (mrg.results # << >>),
                  !.files = (IF mrg.results # << >>
                             THEN {"merged_transfer_stats.csv"} ELSE {})
                            \cup (IF mrg.not_found # << >>
                                  THEN {"merge_not_found.csv"} ELSE {})]
    /\ UNCHANGED <<programVars, nrm, sel, mat, sea, lkp, sav, bat, req>>

\* lines 178-193: line 183 divides by len(transfers), line 191 reads
\* merged_df
PrintSummary ==
    /\ mrg.pc = "summary"
    /\ mrg' = IF Len(mrg.transfers) = 0
              THEN [mrg EXCEPT !.pc = "raised", !.error = "ZeroDivisionError",
                               !.printed = << "total" >>]
              ELSE IF ~mrg.merged_df
              THEN [mrg EXCEPT !.pc = "raised", !.error = "UnboundLocalError",
                               !.printed = << "total", "matched", "not_found" >>]
              ELSE [mrg EXCEPT !.pc = "done",
                               !.printed = << "total", "matched", "not_found",
                                              "columns" >>]
    /\ UNCHANGED <<programVars, nrm, sel, mat, sea, lkp, sav, bat, req>>

----------------------------------------------------------------------------
\* create_batches.py: transfers_player_urls.json cut into batch files.
\* A JSON object is the sequence of its items, each << name, url >>, the
\* names all different.

\* line 31: range(4)
NBatches == 4

\* line 21: math.ceil(total / 4)
BatchSize(total) ==
    IF total % NBatches = 0 THEN total \div NBatches
    ELSE total \div NBatches + 1

\* list[start:end] of Python, both places counted from 0 and cut at the
\* length of the list
Slice(list, start, end) ==
    LET lo == IF start < Len(list) THEN start ELSE Len(list)
        hi == IF end < Len(list) THEN end ELSE Len(list)
    IN [k \in 1..(IF hi > lo THEN hi - lo ELSE 0) |-> list[lo + k]]

\* lines 32-35: the batch of loop index i
Batch(players_list, i) ==
    LET total == Len(players_list)
        batch_size == BatchSize(total)
        start_idx == i * batch_size
        end_idx == IF (i + 1) * batch_size < total
                   THEN (i + 1) * batch_size ELSE total
    IN Slice(players_list, start_idx, end_idx)

\* line 36: f'batch_{i+1}_player_urls.json'
BatchFile(i) == "batch_" \o ToString(i + 1) \o "_player_urls.json"

\* the players of the model and their pages
BatchItems ==
    {<< "player " \o ToString(k), "/en/players/" \o ToString(k) >> :
        k \in 1..MaxBatchPlayers}

\* every JSON object over these players, in every order
PlayerObjects ==
    {q \in SeqsUpTo(BatchItems, MaxBatchPlayers) :
        \A a, b \in 1..Len(q) : a # b => q[a][1] # q[b][1]}

\* no run of create_batches stands
NoBatches ==
    [pc |-> "idle", players_list |-> << >>, i |-> 0,
     files |-> [f \in {} |-> << >>]]

\* lines 17-28
BatchesInput(players_list) ==
    [NoBatches EXCEPT !.pc = "loop", !.players_list = players_list]

\* lines 31-41, one pass of the loop
WriteBatch ==
    /\ bat.pc = "loop"
    /\ bat.i < NBatches
    /\ bat' = [bat EXCEPT
                  !.i = @ + 1,
                  !.files = DictUpdate(@, BatchFile(bat.i) :>
                                Batch(bat.players_list, bat.i))]
    /\ UNCHANGED <<programVars, nrm, sel, mat, sea, lkp, sav, mrg, req>>

\* lines 43-57
FinishBatches ==
    /\ bat.pc = "loop"
    /\ bat.i = NBatches
    /\ bat' = [bat EXCEPT !.pc = "done"]
    /\ UNCHANGED <<programVars, nrm, sel, mat, sea, lkp, sav, mrg, req>>

----------------------------------------------------------------------------
\* PlayerURLFinder._scrape_page and FBrefScraper._make_request, step by
\* step, under the loops that call them: scrape_player_index calls
\* _scrape_page for one shard after the other, scrape_multiple_players calls
\* scrape_player_stats, which calls _make_request once, for one player
\* after the other.  The events of a run are written down in the order in
\* which they happen.

\* --delay of get_player_urls_from_csv.py, the delay of scrape_batch.py
Delays == {3, 15}

Routines == {"_scrape_page", "_make_request"}

\* what a GET can come to: a page, a 404, an exception (a timeout after 30
\* seconds among them)
Responses == {"page", "404", "exception"}

Event(kind, seconds) == [kind |-> kind, seconds |-> seconds]

\* faulty variant of SleepTime: no delay at all
SleepTimeNone(delay) == 0

\* time.sleep(self.delay): the seconds slept
SleepTime(delay) == delay

\* no run stands
NoRequests ==
    [pc |-> "idle", routine |-> "", delay |-> 0, total |-> 0, idx |-> 0,
     in_flight |-> 0, trace |-> << >>, returned |-> << >>]

RequestsInput(routine, delay, total) ==
    [NoRequests EXCEPT !.pc = "loop", !.routine = routine, !.delay = delay,
                       !.total = total]

\* get_player_urls_from_csv.py line 277, fbref_scraper.py line 143: the
\* next call of the routine
CallRoutine ==
    /\ req.pc = "loop"
    /\ req.idx < req.total
    /\ req' = [req EXCEPT !.pc = "called"]
    /\ UNCHANGED <<programVars, nrm, sel, mat, sea, lkp, sav, mrg, bat>>

\* get_player_urls_from_csv.py line 168, fbref_scraper.py line 62
Sleep ==
    /\ req.pc = "called"
    /\ req' = [req EXCEPT
                  !.pc = "slept",
                  !.trace = Append(@, Event("sleep", SleepTime(req.delay)))]
    /\ UNCHANGED <<programVars, nrm, sel, mat, sea, lkp, sav, mrg, bat>>

\* get_player_urls_from_csv.py line 171, fbref_scraper.py line 64: the GET
\* is sent
Get ==
    /\ req.pc = "slept"
    /\ req' = [req EXCEPT !.pc = "in_get",
                          !.in_flight = @ + 1,
                          !.trace = Append(@, Event("get", 0))]
    /\ UNCHANGED <<programVars, nrm, sel, mat, sea, lkp, sav, mrg, bat>>

\* get_player_urls_from_csv.py lines 171-183, fbref_scraper.py lines 64-71:
\* the GET comes back and the routine returns a page or None; then
\* scrape_multiple_players.py lines 51-53 stand before the next player
Respond(response) ==
    /\ req.pc = "in_get"
    /\ req' = [req EXCEPT
                  !.pc = IF req.routine = "_make_request"
                            /\ req.idx + 1 < req.total
                         THEN "between" ELSE "loop",
                  !.idx = @ + 1,
                  !.in_flight = @ - 1,
                  !.trace = Append(@, Event("response", 0)),
                  !.returned = Append(@, response = "page")]
    /\ UNCHANGED <<programVars, nrm, sel, mat, sea, lkp, sav, mrg, bat>>

\* scrape_multiple_players.py lines 51-53: time.sleep(delay)
SleepBetween ==
    /\ req.pc = "between"
    /\ req' = [req EXCEPT
                  !.pc = "loop",
                  !.trace = Append(@, Event("sleep", SleepTime(req.delay)))]
    /\ UNCHANGED <<programVars, nrm, sel, mat, sea, lkp, sav, mrg, bat>>

\* the loop is over
FinishRequests ==
    /\ req.pc = "loop"
    /\ req.idx = req.total
    /\ req' = [req EXCEPT !.pc = "done"]
    /\ UNCHANGED <<programVars, nrm, sel, mat, sea, lkp, sav, mrg, bat>>

\* Ctrl-C while the run sleeps or waits: KeyboardInterrupt is no Exception,
\* neither routine catches it, a GET in flight is given up
Interrupt ==
    /\ req.pc \in {"called", "in_get", "between"}
    /\ req' = [req EXCEPT !.pc = "stopped", !.in_flight = 0]
    /\ UNCHANGED <<programVars, nrm, sel, mat, sea, lkp, sav, mrg, bat>>

----------------------------------------------------------------------------
\* the program has not started
ProgramInit ==
    /\ file = NoFile
    /\ pc = "idle"
    /\ wr = "none"
    /\ resume = FALSE
    /\ combos = <<>>
    /\ loaded = NoFile
    /\ all_players = EmptyDict
    /\ processed_combos = {}
    /\ remaining_combos = <<>>
    /\ idx = 0
    /\ fetched = <<>>
    /\ last_outcome = "none"
    /\ saved_idx = 0
    /\ runs = 0
    /\ p_pc = "idle"
    /\ players = <<>>
    /\ p_idx = 0
    /\ attempted = <<>>
    /\ p_outcomes = <<>>
    /\ results_collection = EmptyDict

Init ==
    /\ ProgramInit
    /\ nrm = NoNormalize
    /\ sel = NoSelect
    /\ mat = NoMatch
    /\ sea = NoSeason
    /\ lkp = NoLookup
    /\ sav = NoSave
    /\ mrg = NoMerge
    /\ bat = NoBatches
    /\ req = NoRequests

StartCrawl == \E r \in BOOLEAN, t \in Targets : Start(r, t)

\* the site answers 200 with some page of Pages
ScrapeDocument == \E e \in PageExtracts : ScrapeCombo("document", e)

\* the site answers 404
ScrapeNotFound == ScrapeCombo("not_found", EmptyDict)

\* the request fails: network error, timeout, HTTP error other than 404
ScrapeError == ScrapeCombo("error", EmptyDict)

StartScrape == \E u \in PlayerInputs : StartPlayers(u)

PlayerOk == ScrapePlayer("ok")

PlayerEmpty == ScrapePlayer("empty")

PlayerRaised == ScrapePlayer("raised")

Next ==
    \/ StartCrawl
    \/ ScrapeDocument
    \/ ScrapeNotFound
    \/ ScrapeError
    \/ SaveOpen
    \/ SaveFlush
    \/ SaveClose
    \/ Kill
    \/ StartScrape
    \/ PlayerOk
    \/ PlayerEmpty
    \/ PlayerRaised
    \/ Exit

Spec == Init /\ [][Next]_vars

----------------------------------------------------------------------------
\* One crawl on its own, the last run of a behaviour, over what earlier
\* runs can have left on disk

\* checkpoint files a crawl can leave: none, a torn one, or a complete one
\* of a crawl that found some shards and no player on them
LeftFiles ==
    {NoFile, TornFile("empty"), TornFile("partial")}
        \cup {CheckpointData(EmptyDict, ProcessedList(S)) :
                  S \in SUBSET ShortShards \ {{}}}

InitCrawl ==
    /\ file \in LeftFiles
    /\ pc = "idle"
    /\ wr = "none"
    /\ resume = FALSE
    /\ combos = <<>>
    /\ loaded = NoFile
    /\ all_players = EmptyDict
    /\ processed_combos = {}
    /\ remaining_combos = <<>>
    /\ idx = 0
    /\ fetched = <<>>
    /\ last_outcome = "none"
    /\ saved_idx = 0
    /\ runs = MaxRuns - 1
    /\ p_pc = "idle"
    /\ players = <<>>
    /\ p_idx = 0
    /\ attempted = <<>>
    /\ p_outcomes = <<>>
    /\ results_collection = EmptyDict
    /\ nrm = NoNormalize
    /\ sel = NoSelect
    /\ mat = NoMatch
    /\ sea = NoSeason
    /\ lkp = NoLookup
    /\ sav = NoSave
    /\ mrg = NoMerge
    /\ bat = NoBatches
    /\ req = NoRequests

\* a step of the crawl itself: a fetch, or a step of a checkpoint write
CrawlStep ==
    \/ ScrapeDocument
    \/ ScrapeNotFound
    \/ ScrapeError
    \/ SaveOpen
    \/ SaveFlush
    \/ SaveClose

NextCrawl ==
    \/ StartCrawl
    \/ CrawlStep
    \/ Kill
    \/ Exit

SpecCrawl == InitCrawl /\ [][NextCrawl]_vars

\* a crawl that is not killed goes on: time.sleep returns, the GET has a
\* timeout of 30 seconds, the write of the checkpoint file comes to an end
FairCrawl == SpecCrawl /\ WF_vars(CrawlStep)

----------------------------------------------------------------------------
\* The name normalizer on its own: a name and a second spelling of it

InitNormalize ==
    /\ ProgramInit
    /\ nrm \in {NormalizeInput(n) : n \in NameInputs}
    /\ sel = NoSelect
    /\ mat = NoMatch
    /\ sea = NoSeason
    /\ lkp = NoLookup
    /\ sav = NoSave
    /\ mrg = NoMerge
    /\ bat = NoBatches
    /\ req = NoRequests

RespaceName == \E i \in 0..(MaxNameLen + 1), w \in Whitespace : Respace(i, w)

NormalizeName == \E copy \in Copies : Normalize(copy)

NextNormalize ==
    \/ Recase
    \/ Unmark
    \/ RespaceName
    \/ NormalizeName
    \/ Renormalize

SpecNormalize == InitNormalize /\ [][NextNormalize]_vars

\* _get_required_combos on its own

InitSelect ==
    /\ ProgramInit
    /\ nrm = NoNormalize
    /\ sel \in {SelectInput(l) : l \in TargetLists}
    /\ mat = NoMatch
    /\ sea = NoSeason
    /\ lkp = NoLookup
    /\ sav = NoSave
    /\ mrg = NoMerge
    /\ bat = NoBatches
    /\ req = NoRequests

NextSelect == GetRequiredCombos

SpecSelect == InitSelect /\ [][NextSelect]_vars

\* the matcher on its own

InitMatch ==
    /\ ProgramInit
    /\ nrm = NoNormalize
    /\ sel = NoSelect
    /\ mat \in {MatchInput(q, ix) : q \in QueryLists, ix \in IndexDicts}
    /\ sea = NoSeason
    /\ lkp = NoLookup
    /\ sav = NoSave
    /\ mrg = NoMerge
    /\ bat = NoBatches
    /\ req = NoRequests

NextMatch ==
    \/ MatchPlayers
    \/ MatchAndFilter

SpecMatch == InitMatch /\ [][NextMatch]_vars

\* parse_transfer_season on its own

InitSeason ==
    /\ ProgramInit
    /\ nrm = NoNormalize
    /\ sel = NoSelect
    /\ mat = NoMatch
    /\ sea \in {SeasonInput(t) : t \in SeasonInputs}
    /\ lkp = NoLookup
    /\ sav = NoSave
    /\ mrg = NoMerge
    /\ bat = NoBatches
    /\ req = NoRequests

NextSeason == ParseTransferSeason

SpecSeason == InitSeason /\ [][NextSeason]_vars

\* get_player_stats on its own

InitLookup ==
    /\ ProgramInit
    /\ nrm = NoNormalize
    /\ sel = NoSelect
    /\ mat = NoMatch
    /\ sea = NoSeason
    /\ lkp \in {LookupInput(d, "2009-2010") : d \in Directories}
    /\ sav = NoSave
    /\ mrg = NoMerge
    /\ bat = NoBatches
    /\ req = NoRequests

NextLookup == GetPlayerStats

SpecLookup == InitLookup /\ [][NextLookup]_vars

\* save_results and the lookup after it

InitSave ==
    /\ ProgramInit
    /\ nrm = NoNormalize
    /\ sel = NoSelect
    /\ mat = NoMatch
    /\ sea = NoSeason
    /\ lkp = NoLookup
    /\ sav \in {SaveInput(r, q) : r \in ScrapeResults, q \in SavedNames}
    /\ mrg = NoMerge
    /\ bat = NoBatches
    /\ req = NoRequests

NextSave ==
    \/ SaveResults
    \/ LookupSaved

SpecSave == InitSave /\ [][NextSave]_vars

\* merge_transfers_with_stats on its own

InitMerge ==
    /\ ProgramInit
    /\ nrm = NoNormalize
    /\ sel = NoSelect
    /\ mat = NoMatch
    /\ sea = NoSeason
    /\ lkp = NoLookup
    /\ sav = NoSave
    /\ mrg \in {MergeInput(t) : t \in TransferLists}
    /\ bat = NoBatches
    /\ req = NoRequests

NextMerge ==
    \/ MergeRow
    \/ SaveMerged
    \/ PrintSummary

SpecMerge == InitMerge /\ [][NextMerge]_vars

\* create_batches on its own

InitBatches ==
    /\ ProgramInit
    /\ nrm = NoNormalize
    /\ sel = NoSelect
    /\ mat = NoMatch
    /\ sea = NoSeason
    /\ lkp = NoLookup
    /\ sav = NoSave
    /\ mrg = NoMerge
    /\ bat \in {BatchesInput(q) : q \in PlayerObjects}
    /\ req = NoRequests

NextBatches ==
    \/ WriteBatch
    \/ FinishBatches

SpecBatches == InitBatches /\ [][NextBatches]_vars

\* the requests of a run

InitRequests ==
    /\ ProgramInit
    /\ nrm = NoNormalize
    /\ sel = NoSelect
    /\ mat = NoMatch
    /\ sea = NoSeason
    /\ lkp = NoLookup
    /\ sav = NoSave
    /\ mrg = NoMerge
    /\ bat = NoBatches
    /\ req \in {RequestsInput(r, d, n) :
                   r \in Routines, d \in Delays, n \in 0..MaxRequests}

RespondAny == \E response \in Responses : Respond(response)

NextRequests ==
    \/ CallRoutine
    \/ Sleep
    \/ Get
    \/ RespondAny
    \/ SleepBetween
    \/ FinishRequests
    \/ Interrupt

SpecRequests == InitRequests /\ [][NextRequests]_vars



----------------------------------------------------------------------------
\* Properties of the crawl

\* the crawl runs or has returned
CrawlLive == pc \in InCrawl \cup {"done"}

\* the step hands one more shard to _scrape_page
FetchStep == Len(fetched') = Len(fetched) + 1

\* the crawl resumed from a checkpoint it could load
Resumed == CrawlLive /\ resume /\ loaded.kind = "complete"

LoadedProcessed == Range(loaded.processed_combos)

\* C1: a shard whose only fetch of the run ended in a transient failure is
\* not in the processed set.
C1_FailedShardStaysPending ==
    (CrawlLive /\ last_outcome = "error") =>
        LET c == fetched[Len(fetched)] IN
        (\A i \in 1..(Len(fetched) - 1) : fetched[i] # c)
            => c \notin processed_combos

\* C2: a crawl resumed from a checkpoint never fetches a shard the
\* checkpoint lists as processed.
C2_NoRefetchOfProcessed ==
    (resume /\ loaded.kind = "complete") =>
        \A i \in 1..Len(fetched) : fetched[i] \notin LoadedProcessed

C2_Witness ==
    /\ pc = "done"
    /\ Resumed
    /\ LoadedProcessed \cap Range(combos) # {}
    /\ Len(fetched) >= 1

\* C3: a crawl of S resumed from a checkpoint that recorded P, a subset of
\* S, and run to completion has processed every shard of S and still holds
\* every (display name, URL) entry of the checkpoint.
C3_ResumeKeepsShardsAndEntries ==
    (pc = "done" /\ Resumed /\ LoadedProcessed \subseteq Range(combos)) =>
        /\ Range(combos) \subseteq processed_combos
        /\ \A n \in DOMAIN loaded.players :
              n \in DOMAIN all_players /\ all_players[n] = loaded.players[n]

\* C4: a 404 answer counts as an empty success: the shard joins the
\* processed set, the entries stay as they are and the crawl goes on.
C4_NotFoundIsEmptySuccess ==
    [][ (FetchStep /\ last_outcome' = "not_found") =>
            /\ fetched'[Len(fetched')] \in processed_combos'
            /\ all_players' = all_players
            /\ pc' \in InCrawl
            /\ idx' = idx + 1 ]_vars

C4_Witness ==
    /\ pc = "loop"
    /\ last_outcome = "not_found"
    /\ idx < Len(remaining_combos)
    /\ fetched[Len(fetched)] \in processed_combos
    /\ all_players # EmptyDict

\* C5: whenever no crawl process runs (it returned, or was killed at any
\* point), the checkpoint file is absent or a complete record.
C5_CheckpointNeverTorn ==
    pc \in Idle => file.kind \in {"absent", "complete"}

C7_FirstSeenWins ==
    [][ FetchStep =>
          \A n \in DOMAIN all_players :
              (~resume \/ n \notin DOMAIN loaded.players)
                  => n \in DOMAIN all_players' /\ all_players'[n] = all_players[n]
      ]_vars

\* C8: no step of a crawl unmaps a display name; a fetch that fails or
\* finds no page leaves the mapping as it is; loading a checkpoint maps
\* every name the checkpoint holds.
C8_EntriesOnlyGrow ==
    [][ /\ (pc \in InCrawl /\ pc' \in InCrawl \cup {"done"}) =>
              DOMAIN all_players \subseteq DOMAIN all_players'
        /\ (FetchStep /\ last_outcome' \in {"error", "not_found"}) =>
              all_players' = all_players
        /\ (pc \in Idle /\ pc' \in InCrawl /\ resume' /\ file.kind = "complete") =>
              DOMAIN file.players \subseteq DOMAIN all_players'
      ]_vars

C8_Witness ==
    /\ Resumed
    /\ DOMAIN loaded.players # {}
    /\ last_outcome = "error"
    /\ DOMAIN loaded.players \subseteq DOMAIN all_players
    /\ DOMAIN all_players # DOMAIN loaded.players

\* C9: a failed fetch or a failed player never ends the run: the crawl
\* stops early only when it cannot load its checkpoint, both loops attempt
\* their items one after the other whatever the outcomes, and they end
\* with every item attempted.
C9_FailureDoesNotAbort ==
    /\ pc = "aborted" => fetched = <<>>
    /\ CrawlLive => idx = Len(fetched) /\ idx <= Len(remaining_combos)
    /\ pc \in {"final", "done"} => fetched = remaining_combos
    /\ p_pc # "aborted"
    /\ p_pc \in {"loop", "done"} =>
          /\ Len(attempted) = p_idx
          /\ Len(p_outcomes) = p_idx
          /\ \A i \in 1..p_idx : attempted[i] = players[i][1]
    /\ p_pc = "done" => p_idx = Len(players)

C9_Witness ==
    /\ p_pc = "done"
    /\ Len(players) >= 2
    /\ p_outcomes[1] = "raised"
    /\ p_outcomes[2] = "empty"
    /\ Len(attempted) = Len(players)

\* C10 as claimed: the shards are fetched in ascending order, whatever the
\* sequence passed.
C10_FetchedAscending == IsAscending(fetched)

\* C10 amended: the shards are fetched in the order of the sequence passed,
\* which is ascending whenever that sequence is.
C10_FetchedInInputOrder ==
    CrawlLive =>
        /\ LET pending(c) == c \notin LoadedProcessed IN
           fetched = SubSeq(SelectSeq(combos, pending), 1, Len(fetched))
        /\ IsAscending(combos) => IsAscending(fetched)

C10_Witness ==
    /\ pc = "done"
    /\ ~IsAscending(combos)
    /\ Len(fetched) >= 2
    /\ fetched = combos

\* C11: a crawl started with resume off takes nothing from the checkpoint
\* file, whatever it holds: it has loaded no record, its work list is the
\* whole target list, its processed set holds exactly the shards it has
\* fetched itself (none, and no entry, before the first fetch), and when it
\* returns it has fetched every shard of the target list.
C11_NoResumeIgnoresCheckpoint ==
    (CrawlLive /\ ~resume) =>
        /\ loaded = NoFile
        /\ remaining_combos = combos
        /\ fetched = SubSeq(combos, 1, idx)
        /\ processed_combos = Range(fetched)
        /\ (idx = 0 => all_players = EmptyDict)
        /\ (pc \in {"final", "done"} => fetched = combos)

\* a crawl without resume has fetched a shard that the complete checkpoint
\* on disk lists as processed
C11_Witness ==
    /\ pc = "loop"
    /\ ~resume
    /\ file.kind = "complete"
    /\ idx >= 1
    /\ fetched[1] \in Range(file.processed_combos)

----------------------------------------------------------------------------
\* Properties of the name normalizer

\* some copy of the routine has returned the keys of the two spellings
Keyed == nrm.pc \in {"keyed", "rekeyed"}

\* C18: normalization is idempotent: either copy of the routine, applied to
\* the key it returned for a name, returns that key again.
C18_NormalizeIdempotent == nrm.pc = "rekeyed" => nrm.key2 = nrm.key

\* the key of a name with an upper-case letter, an accent and surplus
\* whitespace has been normalized again
C18_Witness ==
    /\ nrm.pc = "rekeyed"
    /\ nrm.name = << " ", "S", "é" >>
    /\ nrm.key = << "s", "e" >>
    /\ nrm.variant = nrm.name

\* C19: two spellings of a name that differ only in letter case, in
\* combining accents or in the amount of whitespace at the ends and between
\* the words get the same key.
C19_RespellingsShareKey == Keyed => nrm.key = nrm.vkey

----------------------------------------------------------------------------
\* Properties of the matcher

\* the positions of the index whose name has the key of query name q
Hits(q) ==
    {i \in 1..Len(mat.index_players) :
        NormalizeBy(mat.copy, mat.index_players[i][1])
            = NormalizeBy(mat.copy, q)}

\* the largest number of a set of positions
Last(S) == CHOOSE i \in S : \A j \in S : j <= i

\* C12: when the matcher returns, every query name is a key of matched or
\* an element of unmatched, and never both.
C12_EveryQueryInExactlyOne ==
    mat.pc = "returned" =>
        \A i \in 1..Len(mat.csv_players) :
            (mat.csv_players[i] \in DOMAIN mat.matched)
                # (mat.csv_players[i] \in Range(mat.unmatched))

\* match_and_filter has returned with one query name matched and one not
C12_Witness ==
    /\ mat.pc = "returned"
    /\ mat.copy = "filter_player_urls"
    /\ Len(mat.csv_players) = 2
    /\ mat.csv_players[1] \in Range(mat.unmatched)
    /\ mat.csv_players[2] \in DOMAIN mat.matched

\* C13: matched has exactly the query names, as they were given, whose key
\* is the key of some index name, and maps each to the URL of the last
\* index name with that key; the queries "Kylian Mbappé", "Erling Haaland"
\* against the index {"Kylian Mbappe": "url1"} give
\* {"Kylian Mbappé": "url1"} and ["Erling Haaland"].
C13_MatchedIffSameKey ==
    mat.pc = "returned" =>
        /\ DOMAIN mat.matched \subseteq Range(mat.csv_players)
        /\ \A q \in Range(mat.csv_players) :
                /\ q \in DOMAIN mat.matched <=> Hits(q) # {}
                /\ Hits(q) # {} =>
                       mat.matched[q] = mat.index_players[Last(Hits(q))][2]
        /\ ( /\ mat.csv_players = << KylianMbappeAccent, ErlingHaaland >>
             /\ mat.index_players = << << KylianMbappe, "url1" >> >> )
           => /\ mat.matched = (KylianMbappeAccent :> "url1")
              /\ mat.unmatched = << ErlingHaaland >>

\* two index names with one key and different URLs, and a query name that
\* is spelled like neither: it is matched under its own spelling to the URL
\* of the second
C13_Witness ==
    /\ mat.pc = "returned"
    /\ mat.csv_players = << KylianMbappeAccent, ErlingHaaland >>
    /\ mat.index_players = << << KylianMbappe, "url1" >>,
                              << KylianMbappeUpper, "url2" >> >>
    /\ mat.matched = (KylianMbappeAccent :> "url2")

\* C14: unmatched is the query list without the names that were found, in
\* the order of the query list.
C14_UnmatchedInInputOrder ==
    mat.pc = "returned" =>
        mat.unmatched = SelectSeq(mat.csv_players, LAMBDA q : Hits(q) = {})

\* two different names were not found
C14_Witness ==
    /\ mat.pc = "returned"
    /\ mat.index_players # << >>
    /\ mat.csv_players = << ErlingHaaland, BoIto >>
    /\ mat.unmatched = << ErlingHaaland, BoIto >>

----------------------------------------------------------------------------
\* Properties of _get_required_combos

\* the places of the alphabetic characters of a key
LetterPlaces(k) == {i \in 1..Len(k) : IsAlpha(k[i])}

\* the first two alphabetic characters of a key, if it has two: the set is
\* empty or has one element
FirstTwoLetters(k) ==
    {<< k[p[1]], k[p[2]] >> : p \in
        {p \in LetterPlaces(k) \X LetterPlaces(k) :
            /\ p[1] < p[2]
            /\ \A n \in LetterPlaces(k) : n = p[1] \/ n >= p[2]}}

\* C15: the list returned holds exactly the first two letters of the key of
\* every name whose key has two letters or more, each once, in ascending
\* order.
C15_ExactlyThePrefixesSorted ==
    sel.pc = "returned" =>
        /\ Range(sel.combos) =
               UNION {FirstTwoLetters(PlayerURLFinder_normalize_name(n)) :
                         n \in Range(sel.player_names)}
        /\ \A i \in 1..(Len(sel.combos) - 1) :
               StrLess(sel.combos[i], sel.combos[i + 1])

\* two names, one with a digit between its first letters, given in
\* descending order of their shards
C15_Witness ==
    /\ sel.pc = "returned"
    /\ sel.player_names = << << "Y", "é" >>, << "K", "1", "y", "l" >> >>
    /\ sel.combos = << << "k", "y" >>, << "y", "e" >> >>

\* C16: every name whose key has fewer than two letters, one or none, is
\* reported in a warning.
C16_ShortNamesReported ==
    sel.pc = "returned" =>
        \A n \in Range(sel.player_names) :
            Cardinality(LetterPlaces(PlayerURLFinder_normalize_name(n))) < 2
                => n \in Range(sel.warnings)

\* C17: every shard returned is one of the 676 shards
\* _generate_two_letter_combos enumerates.
C17_ShardsInUniverse ==
    sel.pc = "returned" =>
        Range(sel.combos) \subseteq
            {ComboText(shard) : shard \in Range(generate_two_letter_combos)}

----------------------------------------------------------------------------
\* Properties of parse_transfer_season

\* the season text is "A/B" and A is a decimal number
FirstTokenIsNumber ==
    /\ "/" \in Range(sea.season_str)
    /\ IsDigits(FirstPart(sea.season_str))

\* C20: for a season text "A/B" with A a decimal number the result is the
\* text of 2000 + int(A) - 1, a hyphen, and the text of 2000 + int(A).
C20_PreviousSeasonOfNumber ==
    (sea.pc \in {"returned", "raised"} /\ FirstTokenIsNumber) =>
        /\ sea.pc = "returned"
        /\ sea.season =
               ToString(2000 + IntOf(FirstPart(sea.season_str)) - 1)
                   \o "-"
                   \o ToString(2000 + IntOf(FirstPart(sea.season_str)))

----------------------------------------------------------------------------
\* Properties of get_player_stats

\* the rows of the asked season in the file of the asked player and table,
\* none when the file is missing or cannot be read
MatchingRows ==
    LET f == FileName(CleanName(lkp.player_name), lkp.stats_type)
    IN IF f \in DOMAIN lkp.outputs /\ lkp.outputs[f].readable
       THEN SelectSeq(lkp.outputs[f].rows,
                      LAMBDA r : r.Season = lkp.target_season)
       ELSE << >>

\* the sum of column c over the rows m, place by place
ColumnTotal(m, c) ==
    LET total[i \in 0..Len(m)] == IF i = 0 THEN 0 ELSE total[i - 1] + m[i][c]
    IN total[Len(m)]

\* C21: get_player_stats returns nothing when no row of the file matches
\* the season, the matching row as it stands when exactly one matches, and
\* a row that is none of the file's rows only when two or more match.
C21_LookupByCount ==
    lkp.pc = "returned" =>
        /\ Len(MatchingRows) = 0 => lkp.result = Absent
        /\ Len(MatchingRows) = 1 => lkp.result = Found(MatchingRows[1])
        /\ (lkp.result.found /\ lkp.result.row \notin Range(MatchingRows))
              => Len(MatchingRows) >= 2

C21_Witness ==
    /\ lkp.pc = "returned"
    /\ Len(MatchingRows) = 1
    /\ Len(lkp.outputs[FileName(CleanName(lkp.player_name),
                                lkp.stats_type)].rows) = 3
    /\ lkp.result = Found(MatchingRows[1])

\* C22: in a combined row every numeric column holds the sum of the
\* matching rows (5 and 7 give 12), and every text column other than Squad
\* and Comp holds the value of the first matching row.
C22_CombinedSumsAndFirsts ==
    (lkp.pc = "returned" /\ Len(MatchingRows) >= 2) =>
        /\ lkp.result.found
        /\ \A c \in NumericColumns(MatchingRows) :
              /\ c \in DOMAIN lkp.result.row
              /\ lkp.result.row[c] = ColumnTotal(MatchingRows, c)
        /\ \A c \in TextColumns(MatchingRows) \ {"Squad", "Comp"} :
              /\ c \in DOMAIN lkp.result.row
              /\ lkp.result.row[c] = MatchingRows[1][c]

C22_Witness ==
    /\ lkp.pc = "returned"
    /\ Len(MatchingRows) = 2
    /\ MatchingRows[1].Gls = 5
    /\ MatchingRows[2].Gls = 7
    /\ MatchingRows[1].Pos # MatchingRows[2].Pos
    /\ lkp.result.row.Gls = 12
    /\ lkp.result.row.Pos = MatchingRows[1].Pos

\* C23: a combined row has the columns Squad and Comp, and both hold
\* "Combined".
C23_CombinedSquadAndComp ==
    (lkp.pc = "returned" /\ Len(MatchingRows) >= 2) =>
        /\ lkp.result.found
        /\ "Squad" \in DOMAIN lkp.result.row
        /\ "Comp" \in DOMAIN lkp.result.row
        /\ lkp.result.row.Squad = "Combined"
        /\ lkp.result.row.Comp = "Combined"

----------------------------------------------------------------------------
\* Properties of merge_transfers_with_stats

\* C24: a transfer row whose season cannot be parsed (the first token is no
\* number, or the cell is empty) does not end the run: the run is never
\* stopped by an exception while that row is the one at hand.
C24_BadSeasonSkipped ==
    \A i \in 1..Len(mrg.transfers) :
        ParseCell(mrg.transfers[i].Season).raised
            => ~(mrg.pc = "raised" /\ mrg.idx = i - 1)

\* C25: a merge run that has gone through its transfer list, whatever the
\* list (none matched and no transfer at all among them), ends without an
\* exception, with the whole summary printed and with the file of the
\* unmatched transfers written when there are any.
C25_MergeRunEndsNormally ==
    /\ mrg.idx = Len(mrg.transfers) => mrg.pc # "raised"
    /\ mrg.pc = "done" =>
          /\ mrg.printed = << "total", "matched", "not_found", "columns" >>
          /\ mrg.not_found # << >> => "merge_not_found.csv" \in mrg.files

\* the standard table of the transfer's player has a row of the season
\* before the transfer
HasStandardRow(transfer) ==
    LET f == FileName(CleanName(transfer.Player), "standard_stats")
        parsed == ParseCell(transfer.Season)
    IN /\ ~parsed.raised
       /\ f \in DOMAIN MergeOutputs
       /\ \E i \in 1..Len(MergeOutputs[f].rows) :
              MergeOutputs[f].rows[i].Season = parsed.season

\* C27: the transfer rows gone through are shared out between results and
\* not_found, each row in exactly one of them and in the order of the
\* list: in results exactly the rows whose standard table has the season,
\* whatever the defensive table has; once the loop is over the two lists
\* together are as long as the transfer list.
C27_EveryRowInOneList ==
    mrg.pc # "idle" =>
        LET gone == SubSeq(mrg.transfers, 1, mrg.idx)
        IN /\ Len(mrg.results) + Len(mrg.not_found) = mrg.idx
           /\ [i \in 1..Len(mrg.results) |->
                  [Player |-> mrg.results[i].Player,
                   Season |-> mrg.results[i].Season]]
                 = SelectSeq(gone, HasStandardRow)
           /\ [i \in 1..Len(mrg.not_found) |->
                  [Player |-> mrg.not_found[i].Player,
                   Season |-> mrg.not_found[i].Transfer_Season]]
                 = SelectSeq(gone, LAMBDA t : ~HasStandardRow(t))
           /\ mrg.pc \in {"summary", "done"}
                 => Len(mrg.results) + Len(mrg.not_found) = Len(mrg.transfers)

C27_Witness ==
    /\ mrg.pc = "done"
    /\ Len(mrg.transfers) = 2
    /\ Len(mrg.results) = 1
    /\ "Def_Tkl" \notin DOMAIN mrg.results[1]
    /\ Len(mrg.not_found) = 1
    /\ get_player_stats(MergeOutputs, mrg.not_found[1].Player,
                        mrg.not_found[1].Looking_For,
                        "defensive_actions").found

----------------------------------------------------------------------------
\* Properties of create_batches

\* the batches written, one after the other
AllBatches ==
    LET upto[k \in 0..bat.i] ==
            IF k = 0 THEN << >> ELSE upto[k - 1] \o bat.files[BatchFile(k - 1)]
    IN upto[bat.i]

\* C29: the four batches partition the mapping in its order (one after the
\* other they are the input list, every player once with its URL), and
\* their sizes differ by at most one, for every size of the input.
C29_BatchesPartitionEvenly ==
    bat.pc = "done" =>
        /\ DOMAIN bat.files = {BatchFile(k) : k \in 0..(NBatches - 1)}
        /\ AllBatches = bat.players_list
        /\ \A a, b \in DOMAIN bat.files :
              Len(bat.files[a]) - Len(bat.files[b]) <= 1

----------------------------------------------------------------------------
\* Properties of the files saved and looked up

\* C30: when a player's page gave a name and the standard table, and the
\* name in the transfer list normalizes to the same key as the name on the
\* page, get_player_stats finds the file that save_results wrote: the two
\* file names are the same.
C30_SavedFileFound ==
    (/\ sav.pc = "looked"
     /\ sav.results.player_name.given
     /\ "standard_stats" \in DOMAIN sav.results.tables
     /\ PlayerURLFinder_normalize_name(sav.results.player_name.text)
           = PlayerURLFinder_normalize_name(sav.query_name))
    => /\ sav.result.found
       /\ FileName(CleanName(sav.results.player_name.text), "standard_stats")
             = FileName(CleanName(sav.query_name), "standard_stats")

----------------------------------------------------------------------------
\* Properties of the requests of a run

\* C26: every GET of a run comes straight after a sleep of the configured
\* delay, and at most one GET is in flight at any time.
C26_DelayBeforeEachFetch ==
    /\ req.in_flight <= 1
    /\ \A i \in 1..Len(req.trace) :
          req.trace[i].kind = "get"
              => /\ i > 1
                 /\ req.trace[i - 1] = Event("sleep", req.delay)

C26_Witness ==
    /\ req.routine = "_make_request"
    /\ req.in_flight = 1
    /\ req.idx = 1
    /\ Len(SelectSeq(req.trace, LAMBDA e : e.kind = "get")) = 2

----------------------------------------------------------------------------
\* Termination of the crawl

\* C28: a crawl always comes to an end; while it runs and when it has
\* returned, the shards handed to _scrape_page are the first idx entries of
\* the remaining list, each entry once and in turn, whatever the fetches
\* gave; a crawl that returns has made as many fetches as there are
\* remaining shards (a shard that is once in the list is fetched once) and
\* has written the final checkpoint last.
C28_CrawlTerminates ==
    /\ [](CrawlLive => /\ Len(fetched) = idx
                       /\ fetched = SubSeq(remaining_combos, 1, idx))
    /\ [](pc = "done" =>
            /\ Len(fetched) = Len(remaining_combos)
            /\ \A c \in Range(remaining_combos) :
                  Cardinality({i \in 1..Len(remaining_combos) :
                                  remaining_combos[i] = c})
                     = Cardinality({i \in 1..Len(fetched) : fetched[i] = c})
            /\ wr = "none"
            /\ saved_idx = idx
            /\ file = CheckpointData(all_players, file.processed_combos)
            /\ Range(file.processed_combos) = processed_combos)
    /\ (pc \in InCrawl) ~> (pc \in {"done", "idle"})

C28_Witness ==
    /\ pc = "done"
    /\ Len(remaining_combos) = 2
    /\ remaining_combos[1] # remaining_combos[2]
    /\ fetched = remaining_combos
    /\ last_outcome = "error"
    /\ saved_idx = 2

====
